---- MODULE Spec2Model ----
(***************************************************************************)
(* Senior Care Agent (src/app.py): the SQLite store, the daily routine     *)
(* scheduler, the reminder evaluators and the AI gateway, as a state       *)
(* machine.  A Streamlit session runs the script top to bottom on every    *)
(* interaction: init_db, check_and_create_daily_tasks, the read of         *)
(* tasks_df, then the selected page; a button handler writes to the store  *)
(* and calls st.rerun(), which starts the script again.                    *)
(*                                                                         *)
(* Text values that the code formats or parses ("HH:MM", "YYYY-MM-DD") are *)
(* sequences of one-character strings, so that strftime, strptime, split   *)
(* and int are computed and not assumed.                                   *)
(***************************************************************************)
EXTENDS Integers, Sequences, FiniteSets, TLC

VARIABLES
    schema,            \* the tables that exist in care_data.db
    logs,              \* rows of table logs
    medications,       \* rows of table medications
    appointments,      \* rows of table appointments
    routines,          \* rows of table routines
    patient_profile,   \* rows of table patient_profile
    sqlite_sequence,   \* AUTOINCREMENT: the largest id ever given, per table
    today,             \* the system date (date.today())
    pc,                \* per session: the script line the session is at
    count,             \* per session: the local count of check_and_create_daily_tasks
    seed_today_str,    \* per session: the local today_str of check_and_create_daily_tasks
    today_str,         \* per session: the module-level today_str (line 207)
    tasks_df,          \* per session: the module-level tasks_df (line 208)
    ui,                \* per session: what the last page render put on the screen
    hist               \* history of the run: what the claims speak about

vars == <<schema, logs, medications, appointments, routines, patient_profile,
          sqlite_sequence, today, pc, count, seed_today_str, today_str, tasks_df,
          ui, hist>>

dbVars == <<schema, logs, medications, appointments, routines, patient_profile,
            sqlite_sequence>>

(***************************************************************************)
(* Bounds of the model.                                                    *)
(***************************************************************************)
\* ids the routines table may hand out (two default sets)
MaxRoutineId == 12
\* midnights that pass during a run
MaxTicks == 1
\* caregiver edits of routine rows (add, save time, check/uncheck)
MaxEdits == 1
\* caregiver deletions of routine rows (one whole default set)
MaxDeletes == 6
\* log rows ever created
MaxLogId == 3
\* medication rows ever created
MaxMedId == 3
\* appointment rows ever created
MaxApptId == 3

Sessions == {1, 2}

(***************************************************************************)
(* Text: digits, formatting and parsing.                                   *)
(***************************************************************************)
DigitChars == <<"0", "1", "2", "3", "4", "5", "6", "7", "8", "9">>

Chr(n) == DigitChars[n + 1]

IsDigit(c) == \E i \in 1..Len(DigitChars) : DigitChars[i] = c

DigitVal(c) == CHOOSE n \in 0..9 : DigitChars[n + 1] = c

AllDigits(s) == \A i \in 1..Len(s) : IsDigit(s[i])

\* the value of a non-empty string of decimal digits
RECURSIVE DecimalValue(_)
DecimalValue(s) ==
    IF Len(s) = 0 THEN 0
    ELSE 10 * DecimalValue(SubSeq(s, 1, Len(s) - 1)) + DigitVal(s[Len(s)])

\* "%02d"
Pad2(n) == <<Chr((n \div 10) % 10), Chr(n % 10)>>

\* "%04d"
Pad4(n) == <<Chr((n \div 1000) % 10), Chr((n \div 100) % 10)>> \o Pad2(n % 100)

\* str.split(sep): the pieces of s between the occurrences of sep
RECURSIVE split(_, _)
split(s, sep) ==
    IF \A i \in 1..Len(s) : s[i] # sep THEN <<s>>
    ELSE LET k == CHOOSE i \in 1..Len(s) :
                      s[i] = sep /\ \A j \in 1..(i - 1) : s[j] # sep
         IN  <<SubSeq(s, 1, k - 1)>> \o split(SubSeq(s, k + 1, Len(s)), sep)

\* int(text): a ValueError unless text is decimal digits
int(s) ==
    IF Len(s) > 0 /\ AllDigits(s)
    THEN [ok |-> TRUE, value |-> DecimalValue(s)]
    ELSE [ok |-> FALSE, value |-> 0]

\* time.strftime("%H:%M")
strftime_HM(t) == Pad2(t.hour) \o <<":">> \o Pad2(t.minute)

\* date.strftime("%Y-%m-%d")
strftime_Ymd(d) == Pad4(d.year) \o <<"-">> \o Pad2(d.month) \o <<"-">> \o Pad2(d.day)

\* a strptime field of one or two digits
Field12(s) == Len(s) \in {1, 2} /\ AllDigits(s)

\* datetime.strptime(text, "%H:%M").time(): a ValueError on any other text
strptime_HM(s) ==
    LET p == split(s, ":")
        good == /\ Len(p) = 2
                /\ Field12(p[1]) /\ DecimalValue(p[1]) <= 23
                /\ Field12(p[2]) /\ DecimalValue(p[2]) <= 59
    IN  IF good
        THEN [ok |-> TRUE,
              value |-> [hour |-> DecimalValue(p[1]), minute |-> DecimalValue(p[2]),
                         second |-> 0]]
        ELSE [ok |-> FALSE, value |-> [hour |-> 0, minute |-> 0, second |-> 0]]

IsLeap(y) == (y % 4 = 0 /\ y % 100 # 0) \/ y % 400 = 0

DaysInMonth(y, m) ==
    IF m = 2 THEN (IF IsLeap(y) THEN 29 ELSE 28)
    ELSE IF m \in {4, 6, 9, 11} THEN 30 ELSE 31

RECURSIVE DaysBeforeMonth(_, _)
DaysBeforeMonth(y, m) ==
    IF m <= 1 THEN 0 ELSE DaysBeforeMonth(y, m - 1) + DaysInMonth(y, m - 1)

\* date.toordinal(): days since 0001-01-01, which is day 1
toordinal(d) ==
    LET y == d.year - 1
    IN  365 * y + (y \div 4) - (y \div 100) + (y \div 400)
        + DaysBeforeMonth(d.year, d.month) + d.day

\* datetime.strptime(text, "%Y-%m-%d").date(): a ValueError on any other text
strptime_Ymd(s) ==
    LET p == split(s, "-")
        shaped == /\ Len(p) = 3
                  /\ Len(p[1]) = 4 /\ AllDigits(p[1])
                  /\ Field12(p[2]) /\ DecimalValue(p[2]) \in 1..12
                  /\ Field12(p[3]) /\ DecimalValue(p[3]) \in 1..31
        good == /\ shaped
                /\ DecimalValue(p[1]) >= 1
                /\ DecimalValue(p[3]) <= DaysInMonth(DecimalValue(p[1]), DecimalValue(p[2]))
    IN  IF good
        THEN [ok |-> TRUE,
              value |-> [year |-> DecimalValue(p[1]), month |-> DecimalValue(p[2]),
                         day |-> DecimalValue(p[3])]]
        ELSE [ok |-> FALSE, value |-> [year |-> 1, month |-> 1, day |-> 1]]

\* the date after d
NextDay(d) ==
    IF d.day < DaysInMonth(d.year, d.month) THEN [d EXCEPT !.day = d.day + 1]
    ELSE IF d.month < 12 THEN [year |-> d.year, month |-> d.month + 1, day |-> 1]
    ELSE [year |-> d.year + 1, month |-> 1, day |-> 1]

\* time.__gt__: a > b on (hour, minute, second)
TimeGreater(a, b) ==
    \/ a.hour > b.hour
    \/ a.hour = b.hour /\ a.minute > b.minute
    \/ a.hour = b.hour /\ a.minute = b.minute /\ a.second > b.second

(***************************************************************************)
(* The store.  A table is the set of its rows; ids come from AUTOINCREMENT *)
(* (lines 34, 47, 58, 66, 75), which never gives an id a second time.      *)
(***************************************************************************)
TableNames == {"logs", "medications", "appointments", "routines", "patient_profile"}

\* the rows of a table in rowid order, as a SELECT without ORDER BY returns them
RECURSIVE OrderById(_)
OrderById(rows) ==
    IF rows = {} THEN << >>
    ELSE LET r == CHOOSE x \in rows : \A y \in rows : x.id <= y.id
         IN  <<r>> \o OrderById(rows \ {r})

\* ORDER BY id DESC
RECURSIVE OrderByIdDesc(_)
OrderByIdDesc(rows) ==
    IF rows = {} THEN << >>
    ELSE LET r == CHOOSE x \in rows : \A y \in rows : x.id >= y.id
         IN  <<r>> \o OrderByIdDesc(rows \ {r})

\* LIMIT n
Limit(seq, n) == IF Len(seq) <= n THEN seq ELSE SubSeq(seq, 1, n)

Range(seq) == {seq[i] : i \in 1..Len(seq)}

\* a Python dict is the set of its (key, value) items; dict.get(key, default)
Get(d, k, default) ==
    IF \E item \in d : item.key = k
    THEN (CHOOSE item \in d : item.key = k).value
    ELSE default

\* dict(zip(keys, values)): a later item replaces an earlier one with the same key
DictOfItems(items) ==
    {items[i] : i \in {i \in 1..Len(items) :
                          \A j \in (i + 1)..Len(items) : items[j].key # items[i].key}}

(***************************************************************************)
(* What a session shows after a render, and the history of the run.        *)
(***************************************************************************)
\* no advisory call was made in this run
NoAi ==
    [called |-> FALSE, json_mode |-> FALSE,
     reply |-> [kind |-> "none", message |-> "", valid |-> FALSE, object |-> {},
                text |-> ""],
     result |-> [raised |-> FALSE, message |-> "", kind |-> "none", dict |-> {},
                 text |-> ""],
     shown |-> ""]

BlankUi ==
    [page |-> "none", crashed |-> FALSE, alarm_data |-> {}, ai |-> NoAi,
     current_hour |-> 0, overdue_alerts |-> << >>, recent_high_risk |-> << >>,
     current_time |-> [hour |-> 0, minute |-> 0, second |-> 0], statuses |-> {},
     reminders |-> << >>]

NoCalls == [date |-> << >>, n |-> 0, inserted |-> FALSE]

NoAdd == [id |-> 0, before |-> {}, undone |-> FALSE]

NoSubmit == [id |-> 0, failed |-> FALSE, author |-> "", log_text |-> ""]

InitHist ==
    [ticks |-> 0, edits |-> 0, deletes |-> 0, seedings |-> << >>, seedCalls |-> NoCalls,
     lastAdd |-> NoAdd, lastSubmit |-> NoSubmit]

\* a fresh machine: care_data.db does not exist yet
StartDate == [year |-> 2024, month |-> 12, day |-> 31]

Init ==
    /\ schema = {}
    /\ logs = {}
    /\ medications = {}
    /\ appointments = {}
    /\ routines = {}
    /\ patient_profile = {}
    /\ sqlite_sequence = [t \in TableNames |-> 0]
    /\ today = StartDate
    /\ pc = [s \in Sessions |-> "init_db"]
    /\ count = [s \in Sessions |-> 0]
    /\ seed_today_str = [s \in Sessions |-> << >>]
    /\ today_str = [s \in Sessions |-> << >>]
    /\ tasks_df = [s \in Sessions |-> << >>]
    /\ ui = [s \in Sessions |-> BlankUi]
    /\ hist = InitHist

\* st.rerun(), or the next interaction: the script starts again from its first
\* line with fresh module-level names and an empty page
st_rerun(s) ==
    /\ pc' = [pc EXCEPT ![s] = "init_db"]
    /\ count' = [count EXCEPT ![s] = 0]
    /\ seed_today_str' = [seed_today_str EXCEPT ![s] = << >>]
    /\ today_str' = [today_str EXCEPT ![s] = << >>]
    /\ tasks_df' = [tasks_df EXCEPT ![s] = << >>]
    /\ ui' = [ui EXCEPT ![s] = BlankUi]

(***************************************************************************)
(* init_db (lines 28-86).                                                  *)
(***************************************************************************)
\* the check of line 82 left out: every init_db inserts a profile row
ProfileMissing_unguarded(n) == n >= 0

\* line 82: the profile row is inserted when the table holds none
ProfileMissing(n) == n = 0

DefaultProfile(id) == [id |-> id, age |-> "75", conditions |-> "Hypertension, Arthritis"]

init_db(s) ==
    /\ pc[s] = "init_db"
    /\ schema' = TableNames
    /\ IF ProfileMissing(Cardinality(patient_profile))
       THEN /\ patient_profile' =
                   patient_profile \cup {DefaultProfile(sqlite_sequence["patient_profile"] + 1)}
            /\ sqlite_sequence' =
                   [sqlite_sequence EXCEPT !["patient_profile"] = @ + 1]
       ELSE UNCHANGED <<patient_profile, sqlite_sequence>>
    /\ pc' = [pc EXCEPT ![s] = "seed"]
    /\ UNCHANGED <<logs, medications, appointments, routines, today, count,
                   seed_today_str, today_str, tasks_df, ui, hist>>

(***************************************************************************)
(* check_and_create_daily_tasks (lines 89-109).                            *)
(***************************************************************************)
T(h1, h2, m1, m2) == <<h1, h2, ":", m1, m2>>

defaults ==
    << [task |-> "Breakfast",      t_time |-> T("0", "8", "0", "0")],
       [task |-> "Morning Meds",   t_time |-> T("0", "9", "0", "0")],
       [task |-> "Lunch",          t_time |-> T("1", "3", "0", "0")],
       [task |-> "Afternoon Walk", t_time |-> T("1", "7", "0", "0")],
       [task |-> "Dinner",         t_time |-> T("2", "0", "0", "0")],
       [task |-> "Night Meds",     t_time |-> T("2", "1", "0", "0")] >>

\* line 93: SELECT count(*) FROM routines WHERE date = ?
CountForDate(rows, date_s) == Cardinality({r \in rows : r.date = date_s})

\* the check of line 96 left out: every call inserts
SeedNeeded_unguarded(n) == n >= 0

\* line 96: the defaults are inserted when the count is zero
SeedNeeded(n) == n = 0

\* lines 105-107: one row per default, ids in insertion order
InsertDefaults(rows, seq, date_s) ==
    rows \cup {[id |-> seq + i, date |-> date_s, task |-> defaults[i].task,
                scheduled_time |-> defaults[i].t_time, completed |-> FALSE] :
               i \in 1..Len(defaults)}

\* the history of scheduler calls: consecutive calls for one date, and every insert
AfterSeedCall(h, date_s, inserted) ==
    [h EXCEPT
       !.seedCalls = IF h.seedCalls.n > 0 /\ h.seedCalls.date = date_s
                     THEN [h.seedCalls EXCEPT !.n = IF @ < 2 THEN @ + 1 ELSE @]
                     ELSE [date |-> date_s, n |-> 1, inserted |-> inserted],
       !.seedings = IF inserted THEN Append(@, date_s) ELSE @]

\* lines 96-108 on a count taken for date_s
SeedWrite(s, n, date_s) ==
    IF SeedNeeded(n)
    THEN /\ sqlite_sequence["routines"] + Len(defaults) <= MaxRoutineId
         /\ routines' = InsertDefaults(routines, sqlite_sequence["routines"], date_s)
         /\ sqlite_sequence' = [sqlite_sequence EXCEPT !["routines"] = @ + Len(defaults)]
         /\ hist' = AfterSeedCall(hist, date_s, TRUE)
    ELSE /\ UNCHANGED <<routines, sqlite_sequence>>
         /\ hist' = AfterSeedCall(hist, date_s, FALSE)

\* the whole call as one step (one session: nothing runs between its statements)
check_and_create_daily_tasks(s) ==
    /\ pc[s] = "seed"
    /\ SeedWrite(s, CountForDate(routines, strftime_Ymd(today)), strftime_Ymd(today))
    /\ pc' = [pc EXCEPT ![s] = "fetch"]
    /\ UNCHANGED <<schema, logs, medications, appointments, patient_profile, today,
                   count, seed_today_str, today_str, tasks_df, ui>>

\* lines 92-94 alone: the date and the count, read outside any transaction
seed_count(s) ==
    /\ pc[s] = "seed"
    /\ seed_today_str' = [seed_today_str EXCEPT ![s] = strftime_Ymd(today)]
    /\ count' = [count EXCEPT ![s] = CountForDate(routines, strftime_Ymd(today))]
    /\ pc' = [pc EXCEPT ![s] = "seed_insert"]
    /\ UNCHANGED <<dbVars, today, today_str, tasks_df, ui, hist>>

\* lines 96-109 alone: the inserts and their commit, on the count read before
seed_insert(s) ==
    /\ pc[s] = "seed_insert"
    /\ SeedWrite(s, count[s], seed_today_str[s])
    /\ pc' = [pc EXCEPT ![s] = "fetch"]
    /\ UNCHANGED <<schema, logs, medications, appointments, patient_profile, today,
                   count, seed_today_str, today_str, tasks_df, ui>>

(***************************************************************************)
(* Lines 205-210: the read of today's tasks and inject_alarm_logic.        *)
(***************************************************************************)
\* line 208: SELECT id, task, scheduled_time, completed FROM routines WHERE date = ...
TasksOfDate(rows, date_s) ==
    LET picked == OrderById({r \in rows : r.date = date_s})
    IN  [i \in 1..Len(picked) |->
            [id |-> picked[i].id, task |-> picked[i].task,
             scheduled_time |-> picked[i].scheduled_time,
             completed |-> picked[i].completed]]

IsPending(row) == row.completed = FALSE

\* lines 113-114: pending rows zipped into a dict from scheduled_time to task
alarm_data(df) ==
    LET pending == SelectSeq(df, IsPending)
    IN  DictOfItems([i \in 1..Len(pending) |->
                        [key |-> pending[i].scheduled_time, value |-> pending[i].task]])

fetch_tasks(s) ==
    /\ pc[s] = "fetch"
    /\ today_str' = [today_str EXCEPT ![s] = strftime_Ymd(today)]
    /\ tasks_df' = [tasks_df EXCEPT ![s] = TasksOfDate(routines, strftime_Ymd(today))]
    /\ ui' = [ui EXCEPT ![s].alarm_data =
                 alarm_data(TasksOfDate(routines, strftime_Ymd(today)))]
    /\ pc' = [pc EXCEPT ![s] = "page"]
    /\ UNCHANGED <<dbVars, today, count, seed_today_str, hist>>

\* the user acts on a rendered page: Streamlit runs the script again
interact(s) ==
    /\ pc[s] = "done"
    /\ st_rerun(s)
    /\ UNCHANGED <<dbVars, today, hist>>

\* midnight passes (date.today() changes)
Tick ==
    /\ hist.ticks < MaxTicks
    /\ today' = NextDay(today)
    /\ hist' = [hist EXCEPT !.ticks = @ + 1]
    /\ UNCHANGED <<dbVars, pc, count, seed_today_str, today_str, tasks_df, ui>>

(***************************************************************************)
(* Inputs of the pages.                                                    *)
(***************************************************************************)
time(h, m) == [hour |-> h, minute |-> m, second |-> 0]

\* st.text_input "New Task Name": left empty, or a name
TaskNameInputs == {"", "Physiotherapy"}

\* st.time_input: the default of line 282, or a time the caregiver picks
TimeInputs == {time(10, 0), time(21, 0)}

\* datetime.now(): the wall clock at the moment a page is rendered
Nows ==
    {[hour |-> 7, minute |-> 59, second |-> 0], [hour |-> 8, minute |-> 0, second |-> 0],
     [hour |-> 8, minute |-> 0, second |-> 30], [hour |-> 8, minute |-> 1, second |-> 0],
     [hour |-> 9, minute |-> 59, second |-> 59],
     [hour |-> 10, minute |-> 0, second |-> 0], [hour |-> 23, minute |-> 30, second |-> 0]}

(***************************************************************************)
(* Page "Daily Routine" (lines 274-337).                                   *)
(***************************************************************************)
\* line 332 with >= for >: a row is overdue from its own minute on
status_text_at_or_after(row, current_time) ==
    IF row.completed THEN "Done"
    ELSE IF ~TimeGreater(strptime_HM(row.scheduled_time).value, current_time) THEN "Overdue"
    ELSE "Upcoming"

\* lines 329-335: the status of one row at current_time
status_text(row, current_time) ==
    IF row.completed THEN "Done"
    ELSE IF TimeGreater(current_time, strptime_HM(row.scheduled_time).value) THEN "Overdue"
    ELSE "Upcoming"

\* lines 297 and 329 raise on a scheduled_time that does not parse
TimesParse(df, n) == \A i \in 1..n : strptime_HM(df[i].scheduled_time).ok

\* the page shown in full, no button pressed: every row with its status
DailyRoutineShown(s, now) ==
    /\ ui' = [ui EXCEPT ![s] =
                 IF TimesParse(tasks_df[s], Len(tasks_df[s]))
                 THEN [@ EXCEPT !.page = "Daily Routine", !.current_time = now,
                                !.statuses =
                                    {[id |-> r.id, scheduled_time |-> r.scheduled_time,
                                      status_text |-> status_text(r, now)] :
                                     r \in Range(tasks_df[s])}]
                 ELSE [@ EXCEPT !.page = "Daily Routine", !.crashed = TRUE]]
    /\ pc' = [pc EXCEPT ![s] = "done"]
    /\ UNCHANGED <<dbVars, today, count, seed_today_str, today_str, tasks_df, hist>>

render_daily_routine(s) ==
    /\ pc[s] = "page"
    /\ \E now \in Nows : DailyRoutineShown(s, now)

\* a write to table routines by a button handler, then st.rerun()
RoutineWrite(s, rows, seq) ==
    /\ hist.edits < MaxEdits
    /\ routines' = rows
    /\ sqlite_sequence' = [sqlite_sequence EXCEPT !["routines"] = seq]
    /\ hist' = [hist EXCEPT !.edits = @ + 1, !.seedCalls = NoCalls]
    /\ st_rerun(s)
    /\ UNCHANGED <<schema, logs, medications, appointments, patient_profile, today>>

\* lines 283-291: "Add Task"; with the name left empty the click changes nothing
add_task(s) ==
    /\ pc[s] = "page"
    /\ \E new_task_name \in TaskNameInputs, new_task_time \in TimeInputs :
          IF new_task_name # ""
          THEN /\ sqlite_sequence["routines"] < MaxRoutineId
               /\ RoutineWrite(s,
                     routines \cup {[id |-> sqlite_sequence["routines"] + 1,
                                     date |-> today_str[s], task |-> new_task_name,
                                     scheduled_time |-> strftime_HM(new_task_time),
                                     completed |-> FALSE]},
                     sqlite_sequence["routines"] + 1)
          ELSE \E now \in Nows : DailyRoutineShown(s, now)

\* UPDATE routines SET scheduled_time = ? WHERE id = ?
UpdateTime(rows, id, time_str) ==
    {IF r.id = id THEN [r EXCEPT !.scheduled_time = time_str] ELSE r : r \in rows}

\* lines 299-305: "Save" on the i-th row of the edit list
save_time(s) ==
    /\ pc[s] = "page"
    /\ \E i \in 1..Len(tasks_df[s]), new_t_obj \in TimeInputs :
          /\ TimesParse(tasks_df[s], i)
          /\ RoutineWrite(s, UpdateTime(routines, tasks_df[s][i].id, strftime_HM(new_t_obj)),
                          sqlite_sequence["routines"])

\* DELETE FROM routines WHERE id = ?
DeleteById(rows, id) == {r \in rows : r.id # id}

\* lines 306-311: "Del" on the i-th row of the edit list
del_task(s) ==
    /\ pc[s] = "page"
    /\ \E i \in 1..Len(tasks_df[s]) :
          /\ TimesParse(tasks_df[s], i)
          /\ hist.deletes < MaxDeletes
          /\ routines' = DeleteById(routines, tasks_df[s][i].id)
          /\ hist' = [hist EXCEPT !.deletes = @ + 1, !.seedCalls = NoCalls]
          /\ st_rerun(s)
          /\ UNCHANGED <<schema, logs, medications, appointments, patient_profile,
                         sqlite_sequence, today>>

\* UPDATE routines SET completed = ? WHERE id = ?
UpdateCompleted(rows, id, is_checked) ==
    {IF r.id = id THEN [r EXCEPT !.completed = is_checked] ELSE r : r \in rows}

\* lines 320-327: the checkbox of a row is flipped
toggle_task(s) ==
    /\ pc[s] = "page"
    /\ \E i \in 1..Len(tasks_df[s]) :
          /\ TimesParse(tasks_df[s], Len(tasks_df[s]))
          /\ RoutineWrite(s, UpdateCompleted(routines, tasks_df[s][i].id,
                                             ~tasks_df[s][i].completed),
                          sqlite_sequence["routines"])

(***************************************************************************)
(* One caregiver session on the routine page during one day, from a fresh  *)
(* store.                                                                  *)
(***************************************************************************)
Next ==
    \/ init_db(1)
    \/ check_and_create_daily_tasks(1)
    \/ fetch_tasks(1)
    \/ interact(1)
    \/ render_daily_routine(1)
    \/ add_task(1)
    \/ save_time(1)
    \/ del_task(1)
    \/ toggle_task(1)

Spec == Init /\ [][Next]_vars

(***************************************************************************)
(* Two sessions start the script at once: the statements of                *)
(* check_and_create_daily_tasks of one run between those of the other.     *)
(***************************************************************************)
NextRace ==
    \E s \in Sessions :
        \/ init_db(s)
        \/ seed_count(s)
        \/ seed_insert(s)
        \/ fetch_tasks(s)
        \/ render_daily_routine(s)
        \/ interact(s)
        \/ Tick

SpecRace == Init /\ [][NextRace]_vars

(***************************************************************************)
(* Claims about the scheduler.                                             *)
(***************************************************************************)
\* the rows of date_s are one set of the defaults: each default once, unchecked
OneDefaultSet(rows, date_s) ==
    LET mine == {r \in rows : r.date = date_s}
    IN  /\ Cardinality(mine) = Len(defaults)
        /\ \A i \in 1..Len(defaults) :
              \E r \in mine : /\ r.task = defaults[i].task
                              /\ r.scheduled_time = defaults[i].t_time
                              /\ r.completed = FALSE

\* C1: when check_and_create_daily_tasks is called twice in a row on one date, the
\* second call inserts nothing (table routines is left as it was, so the row count
\* of the date is unchanged), and when the first call seeded, the date holds
\* exactly one set of the six defaults.
C1_SeedTwiceIsOnce ==
    /\ [](hist.seedCalls.n >= 1 /\ hist.seedCalls.inserted
             => OneDefaultSet(routines, hist.seedCalls.date))
    /\ [][hist'.seedCalls.n = 2 => routines' = routines]_vars

\* two calls in a row have happened on one date, the first of which seeded it
C1_Witness == hist.seedCalls.n = 2 /\ hist.seedCalls.inserted

\* C8: for one date value the defaults are inserted at most one time, whatever
\* additions, time edits, completions and deletions come between scheduler calls.
C8_SeededOncePerDate ==
    \A i, j \in 1..Len(hist.seedings) :
        i # j => hist.seedings[i] # hist.seedings[j]

\* C9: when two sessions run check_and_create_daily_tasks for one date with their
\* count and insert steps interleaved, the date still holds exactly one set of six
\* default tasks (no deletion happens in these runs).
C9_RaceLeavesOneSet ==
    \A i \in 1..Len(hist.seedings) :
        CountForDate(routines, hist.seedings[i]) = Len(defaults)

(***************************************************************************)
(* Page "Dashboard": the reminders (lines 220-235).                        *)
(***************************************************************************)
\* line 223: int(row['scheduled_time'].split(":")[0])
task_hour(row) == int(split(row.scheduled_time, ":")[1])

\* line 224 without the hour of grace
IsMissed_no_grace(row, current_hour) == current_hour > task_hour(row).value

\* line 224: current_hour > (task_hour + 1)
IsMissed(row, current_hour) == current_hour > (task_hour(row).value + 1)

\* lines 221-225: one alert, naming task and scheduled time, per missed pending row
overdue_alerts(df, current_hour) ==
    LET Missed(row) == IsMissed(row, current_hour)
        missed == SelectSeq(SelectSeq(df, IsPending), Missed)
    IN  [i \in 1..Len(missed) |->
            [task |-> missed[i].task, scheduled_time |-> missed[i].scheduled_time]]

\* line 223 raises on a pending row whose hour is no number
HoursParse(df) ==
    \A i \in 1..Len(df) : IsPending(df[i]) => task_hour(df[i]).ok

\* line 232 with ASC for DESC: the oldest High row
recent_high_risk_oldest(rows) ==
    Limit(OrderById({r \in rows : r.severity = "High"}), 1)

\* line 232: SELECT * FROM logs WHERE severity = 'High' ORDER BY id DESC LIMIT 1
recent_high_risk(rows) ==
    Limit(OrderByIdDesc({r \in rows : r.severity = "High"}), 1)

\* lines 220-235: the top of the page, shown with no button pressed
DashboardShown(s, now) ==
    /\ ui' = [ui EXCEPT ![s] =
                 IF HoursParse(tasks_df[s])
                 THEN [@ EXCEPT !.page = "Dashboard", !.current_hour = now.hour,
                                !.overdue_alerts = overdue_alerts(tasks_df[s], now.hour),
                                !.recent_high_risk = recent_high_risk(logs)]
                 ELSE [@ EXCEPT !.page = "Dashboard", !.crashed = TRUE]]
    /\ pc' = [pc EXCEPT ![s] = "done"]
    /\ UNCHANGED <<dbVars, today, count, seed_today_str, today_str, tasks_df, hist>>

render_dashboard(s) ==
    /\ pc[s] = "page"
    /\ \E now \in Nows : DashboardShown(s, now)

(***************************************************************************)
(* The evaluators on the routine rows a day can hold: the store already    *)
(* exists and holds rows of today that the caregiver added, retimed,       *)
(* checked or deleted before.                                              *)
(***************************************************************************)
\* rows of today in the store at the start
MaxTaskRows == 3

TaskNames == {"Breakfast", "Physiotherapy"}

TaskTimes == {time(8, 0), time(9, 0), time(21, 0)}

RoutineRows(n) ==
    {{[id |-> i, date |-> strftime_Ymd(StartDate), task |-> f[i].task,
       scheduled_time |-> strftime_HM(f[i].t), completed |-> f[i].completed] :
      i \in 1..n} :
     f \in [1..n -> [task : TaskNames, t : TaskTimes, completed : BOOLEAN]]}

InitAlerts ==
    /\ schema = TableNames
    /\ logs = {}
    /\ medications = {}
    /\ appointments = {}
    /\ \E n \in 0..MaxTaskRows :
          /\ routines \in RoutineRows(n)
          /\ sqlite_sequence = [t \in TableNames |->
                                   IF t = "routines" THEN n
                                   ELSE IF t = "patient_profile" THEN 1 ELSE 0]
    /\ patient_profile = {DefaultProfile(1)}
    /\ today = StartDate
    /\ pc = [s \in Sessions |-> "init_db"]
    /\ count = [s \in Sessions |-> 0]
    /\ seed_today_str = [s \in Sessions |-> << >>]
    /\ today_str = [s \in Sessions |-> << >>]
    /\ tasks_df = [s \in Sessions |-> << >>]
    /\ ui = [s \in Sessions |-> BlankUi]
    /\ hist = InitHist

NextAlerts ==
    \/ init_db(1)
    \/ check_and_create_daily_tasks(1)
    \/ fetch_tasks(1)
    \/ render_dashboard(1)
    \/ render_daily_routine(1)
    \/ interact(1)

SpecAlerts == InitAlerts /\ [][NextAlerts]_vars

\* the hour and minute written in an "HH:MM" text, read digit by digit
WrittenHour(t) == 10 * DigitVal(t[1]) + DigitVal(t[2])

WrittenMinute(t) == 10 * DigitVal(t[4]) + DigitVal(t[5])

\* C4: the status shown for a row depends on the row and the current time of day
\* only: "Done" when the row is completed; otherwise "Overdue" when the current
\* time is strictly later than the scheduled time, and "Upcoming" when it is not.
C4_StatusDerivation ==
    \A s \in Sessions :
        ui[s].page = "Daily Routine" /\ ~ui[s].crashed =>
            \A i \in 1..Len(tasks_df[s]) :
                LET row == tasks_df[s][i]
                    now == ui[s].current_time
                    later == 3600 * now.hour + 60 * now.minute + now.second
                                 > 3600 * WrittenHour(row.scheduled_time)
                                       + 60 * WrittenMinute(row.scheduled_time)
                    expected == IF row.completed THEN "Done"
                                ELSE IF later THEN "Overdue" ELSE "Upcoming"
                IN  /\ [id |-> row.id, scheduled_time |-> row.scheduled_time,
                        status_text |-> expected] \in ui[s].statuses
                    /\ \A st \in ui[s].statuses :
                          st.id = row.id => st.status_text = expected

\* a render that shows an unchecked row at its very minute as Upcoming, one some
\* seconds later as Overdue, and a completed row as Done
C4_Witness ==
    \E s \in Sessions :
        /\ ui[s].page = "Daily Routine"
        /\ \E a, b \in ui[s].statuses : a.status_text = "Done" /\ b.status_text = "Overdue"
        /\ \E i \in 1..Len(tasks_df[s]) :
              /\ ~tasks_df[s][i].completed
              /\ WrittenHour(tasks_df[s][i].scheduled_time) = ui[s].current_time.hour
              /\ WrittenMinute(tasks_df[s][i].scheduled_time) = ui[s].current_time.minute

\* C5: on the Dashboard, a MISSED alert is shown for a task of today exactly when
\* the task is not completed and the current hour is greater than its scheduled
\* hour plus one (minutes ignored); a completed task gets none.  Alerts name the
\* task and its time, so they are counted per (task, time).
C5_MissedAlerts ==
    \A s \in Sessions :
        ui[s].page = "Dashboard" /\ ~ui[s].crashed =>
            \A name \in {tasks_df[s][i].task : i \in 1..Len(tasks_df[s])}
                        \cup {ui[s].overdue_alerts[i].task :
                                 i \in 1..Len(ui[s].overdue_alerts)} :
            \A t \in {tasks_df[s][i].scheduled_time : i \in 1..Len(tasks_df[s])}
                        \cup {ui[s].overdue_alerts[i].scheduled_time :
                                 i \in 1..Len(ui[s].overdue_alerts)} :
                Cardinality({i \in 1..Len(ui[s].overdue_alerts) :
                                ui[s].overdue_alerts[i] =
                                    [task |-> name, scheduled_time |-> t]})
                = Cardinality({i \in 1..Len(tasks_df[s]) :
                                  /\ tasks_df[s][i].task = name
                                  /\ tasks_df[s][i].scheduled_time = t
                                  /\ ~tasks_df[s][i].completed
                                  /\ ui[s].current_hour > WrittenHour(t) + 1})

\* a Dashboard that shows an alert for one row, none for an unchecked row whose hour
\* plus one is the current hour, and none for a completed row long past its hour
C5_Witness ==
    \E s \in Sessions :
        /\ ui[s].page = "Dashboard"
        /\ Len(ui[s].overdue_alerts) = 1
        /\ \E i, j \in 1..Len(tasks_df[s]) :
              /\ ~tasks_df[s][i].completed
              /\ WrittenHour(tasks_df[s][i].scheduled_time) + 1 = ui[s].current_hour
              /\ tasks_df[s][j].completed
              /\ WrittenHour(tasks_df[s][j].scheduled_time) + 1 < ui[s].current_hour

(***************************************************************************)
(* Page "Shared Calendar" (lines 408-450).                                 *)
(***************************************************************************)
\* the code point of a character of a date text (digits, "-", "/")
Ord(c) == IF IsDigit(c) THEN 48 + DigitVal(c) ELSE IF c = "-" THEN 45 ELSE 47

\* a < b as SQLite compares TEXT: by the first character that differs
TextLess(a, b) ==
    \E k \in 1..(Len(a) + 1) :
        /\ \A i \in 1..(k - 1) : i <= Len(b) /\ a[i] = b[i]
        /\ k <= Len(b)
        /\ (k <= Len(a) => Ord(a[k]) < Ord(b[k]))

\* line 411: ORDER BY date ASC (rows with the same text in rowid order)
RECURSIVE OrderByDate(_)
OrderByDate(rows) ==
    IF rows = {} THEN << >>
    ELSE LET r == CHOOSE x \in rows :
                      \A y \in rows : \/ TextLess(x.date, y.date)
                                      \/ x.date = y.date /\ x.id <= y.id
         IN  <<r>> \o OrderByDate(rows \ {r})

\* lines 416-421 for one row: the reminder it gives, if any; a date text that
\* does not parse raises inside the try and is passed over
reminder(row, today_date) ==
    LET parsed == strptime_Ymd(row.date)
        delta == toordinal(parsed.value) - toordinal(today_date)
    IN  IF ~parsed.ok THEN << >>
        ELSE IF delta = 0 THEN <<[doctor |-> row.doctor, when |-> "TODAY"]>>
        ELSE IF delta = 1 THEN <<[doctor |-> row.doctor, when |-> "TOMORROW"]>>
        ELSE << >>

\* the try around the whole loop: the first bad date text ends the scan
RECURSIVE reminders_try_outside(_, _)
reminders_try_outside(df, today_date) ==
    IF Len(df) = 0 \/ ~strptime_Ymd(df[1].date).ok THEN << >>
    ELSE reminder(df[1], today_date) \o reminders_try_outside(Tail(df), today_date)

\* lines 415-421: the scan of appt_df, one try per row
RECURSIVE reminders(_, _)
reminders(df, today_date) ==
    IF Len(df) = 0 THEN << >>
    ELSE reminder(df[1], today_date) \o reminders(Tail(df), today_date)

render_calendar(s) ==
    /\ pc[s] = "page"
    /\ ui' = [ui EXCEPT ![s] =
                 [@ EXCEPT !.page = "Shared Calendar",
                           !.reminders = reminders(OrderByDate(appointments), today)]]
    /\ pc' = [pc EXCEPT ![s] = "done"]
    /\ UNCHANGED <<dbVars, today, count, seed_today_str, today_str, tasks_df, hist>>

\* st.date_input "Date": today, tomorrow or the day after
DateInputs == {StartDate, NextDay(StartDate), NextDay(NextDay(StartDate))}

Doctors == {"Dr. Rao", "City Clinic"}

\* lines 429-434: "Schedule"; sqlite3 stores the date object as its ISO text
add_appointment(s) ==
    /\ pc[s] = "page"
    /\ sqlite_sequence["appointments"] < MaxApptId
    /\ \E date_val \in DateInputs, doc \in Doctors :
          appointments' = appointments \cup
              {[id |-> sqlite_sequence["appointments"] + 1,
                date |-> strftime_Ymd(date_val), doctor |-> doc, purpose |-> "Checkup"]}
    /\ sqlite_sequence' = [sqlite_sequence EXCEPT !["appointments"] = @ + 1]
    /\ st_rerun(s)
    /\ UNCHANGED <<schema, logs, medications, routines, patient_profile, today, hist>>

\* lines 444-449: the delete button of a listed appointment
del_appointment(s) ==
    /\ pc[s] = "page"
    /\ \E row \in appointments : appointments' = DeleteById(appointments, row.id)
    /\ st_rerun(s)
    /\ UNCHANGED <<schema, logs, medications, routines, patient_profile,
                   sqlite_sequence, today, hist>>

(***************************************************************************)
(* The calendar on a store carried over from earlier use: appointments     *)
(* already in the file, some with a date text that was not written by the  *)
(* form of this page.                                                      *)
(***************************************************************************)
\* appointment rows in the store at the start
MaxStoredAppts == 2

StoredDateTexts ==
    { <<"2", "0", "2", "4", "-", "1", "2", "-", "3", "1">>,    \* today
      <<"2", "0", "2", "5", "-", "1", "-", "1">>,              \* tomorrow, unpadded
      <<"2", "0", "2", "5", "-", "0", "1", "-", "0", "2">>,    \* the day after
      <<"2", "0", "2", "4", "-", "0", "2", "-", "3", "0">>,    \* no such day
      <<"1", "2", "/", "3", "1", "/", "2", "0", "2", "4">> }   \* another format

StoredAppointments(n) ==
    {{[id |-> i, date |-> f[i].date, doctor |-> f[i].doctor, purpose |-> "Checkup"] :
      i \in 1..n} :
     f \in [1..n -> [date : StoredDateTexts, doctor : Doctors]]}

InitCalendar ==
    /\ schema = TableNames
    /\ logs = {}
    /\ medications = {}
    /\ routines = {}
    /\ \E n \in 0..MaxStoredAppts :
          /\ appointments \in StoredAppointments(n)
          /\ sqlite_sequence = [t \in TableNames |->
                                   IF t = "appointments" THEN n
                                   ELSE IF t = "patient_profile" THEN 1 ELSE 0]
    /\ patient_profile = {DefaultProfile(1)}
    /\ today = StartDate
    /\ pc = [s \in Sessions |-> "init_db"]
    /\ count = [s \in Sessions |-> 0]
    /\ seed_today_str = [s \in Sessions |-> << >>]
    /\ today_str = [s \in Sessions |-> << >>]
    /\ tasks_df = [s \in Sessions |-> << >>]
    /\ ui = [s \in Sessions |-> BlankUi]
    /\ hist = InitHist

NextCalendar ==
    \/ init_db(1)
    \/ check_and_create_daily_tasks(1)
    \/ fetch_tasks(1)
    \/ render_calendar(1)
    \/ add_appointment(1)
    \/ del_appointment(1)
    \/ interact(1)

SpecCalendar == InitCalendar /\ [][NextCalendar]_vars

\* the ways "%Y-%m-%d" writes a date: month and day with or without a leading zero
Spellings(d) ==
    {Pad4(d.year) \o <<"-">> \o mm \o <<"-">> \o dd :
        mm \in {Pad2(d.month)} \cup (IF d.month < 10 THEN {<<Chr(d.month)>>} ELSE {}),
        dd \in {Pad2(d.day)} \cup (IF d.day < 10 THEN {<<Chr(d.day)>>} ELSE {})}

NumberOf(seq, x) == Cardinality({i \in 1..Len(seq) : seq[i] = x})

\* C6: each appointment is judged on its own: one dated today gives a TODAY alert,
\* one dated tomorrow a TOMORROW alert, any other date and any date text that is
\* no date gives none, and the other appointments keep their alerts either way.
C6_AppointmentAlerts ==
    \A s \in Sessions :
        ui[s].page = "Shared Calendar" =>
            /\ \A doc \in Doctors :
                  /\ NumberOf(ui[s].reminders, [doctor |-> doc, when |-> "TODAY"])
                     = Cardinality({a \in appointments :
                                       a.doctor = doc /\ a.date \in Spellings(today)})
                  /\ NumberOf(ui[s].reminders, [doctor |-> doc, when |-> "TOMORROW"])
                     = Cardinality({a \in appointments :
                                       a.doctor = doc
                                       /\ a.date \in Spellings(NextDay(today))})
            /\ Len(ui[s].reminders)
               = Cardinality({a \in appointments :
                                 a.date \in Spellings(today) \cup Spellings(NextDay(today))})

\* a calendar that lists a date text that is no date before an appointment of
\* today and one of tomorrow, and shows both alerts
C6_Witness ==
    \E s \in Sessions :
        /\ ui[s].page = "Shared Calendar"
        /\ \E bad, a, b \in appointments :
              /\ ~strptime_Ymd(bad.date).ok
              /\ TextLess(bad.date, a.date) /\ TextLess(bad.date, b.date)
              /\ a.date \in Spellings(today)
              /\ b.date \in Spellings(NextDay(today))
              /\ [doctor |-> a.doctor, when |-> "TODAY"] \in Range(ui[s].reminders)
              /\ [doctor |-> b.doctor, when |-> "TOMORROW"] \in Range(ui[s].reminders)

(***************************************************************************)
(* Page "Medication Safety": the cabinet (lines 340-374).                  *)
(***************************************************************************)
MedNames == {"Warfarin", "Aspirin"}

\* line 355: INSERT INTO medications (name, dosage, time); purpose stays NULL
InsertMedication(rows, id, name, dosage, time_val) ==
    rows \cup {[id |-> id, name |-> name, dosage |-> dosage, time |-> time_val,
                purpose |-> "NULL"]}

\* the row is looked up by its name: every row of that drug goes
DeleteMedication_by_name(rows, id) ==
    {r \in rows : \A d \in rows : d.id = id => r.name # d.name}

\* line 371: DELETE FROM medications WHERE id = ?
DeleteMedication(rows, id) == {r \in rows : r.id # id}

\* lines 342-384 with no button pressed: meds_df is read and listed
render_medications(s) ==
    /\ pc[s] = "page"
    /\ ui' = [ui EXCEPT ![s] = [@ EXCEPT !.page = "Medication Safety"]]
    /\ pc' = [pc EXCEPT ![s] = "done"]
    /\ UNCHANGED <<dbVars, today, count, seed_today_str, today_str, tasks_df, hist>>

\* lines 353-359: "Add to Cabinet"
add_medication(s) ==
    /\ pc[s] = "page"
    /\ sqlite_sequence["medications"] < MaxMedId
    /\ \E name \in MedNames :
          medications' = InsertMedication(medications, sqlite_sequence["medications"] + 1,
                                          name, "5mg", "Morning")
    /\ sqlite_sequence' = [sqlite_sequence EXCEPT !["medications"] = @ + 1]
    /\ hist' = [hist EXCEPT !.lastAdd = [id |-> sqlite_sequence["medications"] + 1,
                                         before |-> medications, undone |-> FALSE]]
    /\ st_rerun(s)
    /\ UNCHANGED <<schema, logs, appointments, routines, patient_profile, today>>

\* lines 369-374: the delete button of a row of meds_df
del_medication(s) ==
    /\ pc[s] = "page"
    /\ \E row \in medications :
          /\ medications' = DeleteMedication(medications, row.id)
          /\ hist' = [hist EXCEPT !.lastAdd =
                         [NoAdd EXCEPT !.undone = (row.id = hist.lastAdd.id)]]
    /\ st_rerun(s)
    /\ UNCHANGED <<schema, logs, appointments, routines, patient_profile,
                   sqlite_sequence, today>>

(***************************************************************************)
(* Page "Dr. AI Symptom Checker": the patient profile (lines 498-522).     *)
(***************************************************************************)
Ages == {"75", "80"}

Conditions == {"Hypertension, Arthritis", "Diabetes"}

\* line 518: UPDATE patient_profile SET age = ?, conditions = ? WHERE id = 1
UpdateProfile(rows, new_age, new_cond) ==
    {IF r.id = 1 THEN [r EXCEPT !.age = new_age, !.conditions = new_cond] ELSE r :
     r \in rows}

\* lines 503-522 with no button pressed; line 508 raises when no row was fetched
render_dr_ai(s) ==
    /\ pc[s] = "page"
    /\ ui' = [ui EXCEPT ![s] = [@ EXCEPT !.page = "Dr. AI Symptom Checker",
                                         !.crashed = (patient_profile = {})]]
    /\ pc' = [pc EXCEPT ![s] = "done"]
    /\ UNCHANGED <<dbVars, today, count, seed_today_str, today_str, tasks_df, hist>>

\* lines 516-522: "Update Profile"
update_profile(s) ==
    /\ pc[s] = "page"
    /\ patient_profile # {}
    /\ \E new_age \in Ages, new_cond \in Conditions :
          patient_profile' = UpdateProfile(patient_profile, new_age, new_cond)
    /\ st_rerun(s)
    /\ UNCHANGED <<schema, logs, medications, appointments, routines,
                   sqlite_sequence, today, hist>>

(***************************************************************************)
(* One caregiver session on the cabinet and the profile, from a fresh      *)
(* store.                                                                  *)
(***************************************************************************)
NextCabinet ==
    \/ init_db(1)
    \/ check_and_create_daily_tasks(1)
    \/ fetch_tasks(1)
    \/ render_medications(1)
    \/ add_medication(1)
    \/ del_medication(1)
    \/ render_dr_ai(1)
    \/ update_profile(1)
    \/ interact(1)

SpecCabinet == Init /\ [][NextCabinet]_vars

\* C2: once init_db has run, table patient_profile holds exactly one row in every
\* state, however often init_db runs again and whatever profile updates and cabinet
\* writes come between; the row is created with the defaults, keeps its id when it
\* is updated, and is never deleted.
C2_ProfileSingleton ==
    /\ [](schema # {} => Cardinality(patient_profile) = 1)
    /\ [][/\ (schema = {} /\ schema' # {}) =>
                patient_profile' = {[id |-> 1, age |-> "75",
                                     conditions |-> "Hypertension, Arthritis"]}
          /\ schema # {} =>
                {r.id : r \in patient_profile'} = {r.id : r \in patient_profile}]_vars

\* init_db has just run again after a profile update and a cabinet write
C2_Witness ==
    /\ pc[1] = "seed"
    /\ \E r \in patient_profile : r.age = "80" /\ r.conditions = "Diabetes"
    /\ medications # {}
    /\ sqlite_sequence["medications"] > Cardinality(medications)

\* C7: a medication is created, the cabinet is read, and the created row is
\* deleted: table medications is then what it was before the creation, the same
\* rows with the same ids and field values.
C7_MedicationRoundTrip ==
    [][(/\ hist.lastAdd.id # 0
        /\ medications' # medications
        /\ \A r \in medications' : r.id # hist.lastAdd.id)
       => medications' = hist.lastAdd.before]_vars

\* the created row has just been deleted again, next to another row of the same drug
C7_Witness ==
    /\ hist.lastAdd.undone
    /\ \E r \in medications :
          r.id < sqlite_sequence["medications"] /\ r.name = "Warfarin"
    /\ pc[1] = "init_db"

(***************************************************************************)
(* The AI gateway (lines 138-150).  The provider either raises or returns  *)
(* a message content; a content is a JSON object text or it is not.        *)
(***************************************************************************)
Item(k, v) == [key |-> k, value |-> v]

\* what client.chat.completions.create can do for the classification prompt
Raised(message) == [kind |-> "raise", message |-> message, valid |-> FALSE, object |-> {},
                    text |-> ""]

Content(valid, object) == [kind |-> "content", message |-> "", valid |-> valid,
                           object |-> object, text |-> ""]

\* a content that is free text (the reply to a prompt that asks for Markdown)
Prose(text) == [kind |-> "content", message |-> "", valid |-> FALSE, object |-> {},
                text |-> text]

ClassifyReplies ==
    { Raised("Connection error."),
      Content(FALSE, {}),
      Content(TRUE, {Item("category", "Incident"), Item("severity", "High")}),
      Content(TRUE, {Item("category", "Mood"), Item("severity", "Low")}),
      Content(TRUE, {Item("severity", "High")}),
      Content(TRUE, {Item("category", "Vitals/Activity"), Item("severity", "Critical")}) }

\* json.loads: the object of a JSON object text, a JSONDecodeError otherwise
json_loads(reply) ==
    IF reply.valid THEN [ok |-> TRUE, value |-> reply.object, error |-> ""]
    ELSE [ok |-> FALSE, value |-> {}, error |-> "Expecting value: line 1 column 1 (char 0)"]

\* how a block of code ends: it returns a dict or a text, or it raises
Returns(kind, dict, text) ==
    [raised |-> FALSE, message |-> "", kind |-> kind, dict |-> dict, text |-> text]

Raises(message) ==
    [raised |-> TRUE, message |-> message, kind |-> "none", dict |-> {}, text |-> ""]

\* lines 140-148, the body of the try: create(**kwargs), then json.loads of the
\* content when json_mode, the content itself otherwise
ask_ai_try(reply, json_mode) ==
    IF reply.kind = "raise" THEN Raises(reply.message)
    ELSE IF json_mode
         THEN IF json_loads(reply).ok
              THEN Returns("dict", json_loads(reply).value, "")
              ELSE Raises(json_loads(reply).error)
         ELSE Returns("text", {}, reply.text)

\* no except clause: what the body raised leaves ask_ai
ask_ai_except_missing(outcome) == outcome

\* lines 149-150: except Exception as e: return {"error": str(e)}
ask_ai_except(outcome) ==
    IF outcome.raised THEN Returns("dict", {Item("error", outcome.message)}, "")
    ELSE outcome

\* lines 138-150: ask_ai(prompt, json_mode)
ask_ai_json_mode(reply, json_mode) == ask_ai_except(ask_ai_try(reply, json_mode))

\* ask_ai(prompt), json_mode left at its default True: the parsed object, or
\* {"error": str(e)}
ask_ai(reply) == ask_ai_json_mode(reply, TRUE).dict

\* the provider or the parser failed: ask_ai took its except branch
CallFailed(reply) == reply.kind = "raise" \/ ~reply.valid

(***************************************************************************)
(* Page "Dashboard": the log (lines 237-271).                              *)
(***************************************************************************)
Authors == {"Daughter", "Nurse"}

LogTexts == {"Mom fell in the hallway but says she is okay."}

\* line 254: LIMIT 10
RecentLimit == 10

\* the insert is skipped when the analysis carries an error
InsertLog_unless_error(rows, id, timestamp, author, log_text, analysis) ==
    IF \E item \in analysis : item.key = "error" THEN rows
    ELSE rows \cup {[id |-> id, timestamp |-> timestamp, author |-> author,
                     original_text |-> log_text,
                     category |-> Get(analysis, "category", "General"),
                     severity |-> Get(analysis, "severity", "Low")]}

\* lines 246-247: INSERT INTO logs (author, original_text, category, severity);
\* timestamp is CURRENT_TIMESTAMP, of which the date is kept here
InsertLog(rows, id, timestamp, author, log_text, analysis) ==
    rows \cup {[id |-> id, timestamp |-> timestamp, author |-> author,
                original_text |-> log_text,
                category |-> Get(analysis, "category", "General"),
                severity |-> Get(analysis, "severity", "Low")]}

\* lines 243-250: "Submit Log"
submit_log(s) ==
    /\ pc[s] = "page"
    /\ sqlite_sequence["logs"] < MaxLogId
    /\ \E author \in Authors, log_text \in LogTexts, reply \in ClassifyReplies :
          /\ logs' = InsertLog(logs, sqlite_sequence["logs"] + 1, strftime_Ymd(today),
                               author, log_text, ask_ai(reply))
          /\ hist' = [hist EXCEPT !.lastSubmit =
                         [id |-> sqlite_sequence["logs"] + 1, failed |-> CallFailed(reply),
                          author |-> author, log_text |-> log_text]]
    /\ sqlite_sequence' = [sqlite_sequence EXCEPT !["logs"] = @ + 1]
    /\ st_rerun(s)
    /\ UNCHANGED <<schema, medications, appointments, routines, patient_profile, today>>

\* lines 266-271: the delete button of one of the ten most recent logs
delete_log(s) ==
    /\ pc[s] = "page"
    /\ \E row \in Range(Limit(OrderByIdDesc(logs), RecentLimit)) :
          logs' = DeleteById(logs, row.id)
    /\ st_rerun(s)
    /\ UNCHANGED <<schema, medications, appointments, routines, patient_profile,
                   sqlite_sequence, today, hist>>

(***************************************************************************)
(* One caregiver session on the Dashboard, from a fresh store.             *)
(***************************************************************************)
NextLogs ==
    \/ init_db(1)
    \/ check_and_create_daily_tasks(1)
    \/ fetch_tasks(1)
    \/ render_dashboard(1)
    \/ submit_log(1)
    \/ delete_log(1)
    \/ interact(1)

SpecLogs == Init /\ [][NextLogs]_vars

\* C3: when the model call fails during a log submission, the entry is stored all
\* the same: the submission adds exactly one row, with the submitted author and
\* text, category "General" and severity "Low".
C3_FailedCallStillLogs ==
    [][(hist'.lastSubmit # hist.lastSubmit /\ hist'.lastSubmit.failed)
       => \E row \in logs' :
             /\ row \notin logs
             /\ logs' = logs \cup {row}
             /\ row.id = hist'.lastSubmit.id
             /\ row.author = hist'.lastSubmit.author
             /\ row.original_text = hist'.lastSubmit.log_text
             /\ row.category = "General"
             /\ row.severity = "Low"]_vars

\* a submission whose model call failed has just been stored, after an earlier log
C3_Witness ==
    /\ hist.lastSubmit.failed
    /\ pc[1] = "init_db"
    /\ \E row \in logs : row.id = hist.lastSubmit.id /\ row.id > 1
                         /\ row.category = "General" /\ row.severity = "Low"

\* C10: whatever logs were created and deleted, the Dashboard shows the
\* high-severity alert exactly when some stored log has severity "High", and it
\* shows one entry only: the stored High log with the greatest id.
C10_LatestHighAlert ==
    \A s \in Sessions :
        ui[s].page = "Dashboard" /\ ~ui[s].crashed =>
            LET shown == ui[s].recent_high_risk
                highs == {r \in logs : r.severity = "High"}
            IN  /\ Len(shown) <= 1
                /\ Len(shown) = 1 <=> highs # {}
                /\ Len(shown) = 1 =>
                      /\ shown[1] \in highs
                      /\ \A h \in highs : h.id <= shown[1].id

\* a Dashboard shown after a deletion, with two High logs stored
C10_Witness ==
    \E s \in Sessions :
        /\ ui[s].page = "Dashboard"
        /\ Len(ui[s].recent_high_risk) = 1
        /\ Cardinality({r \in logs : r.severity = "High"}) = 2
        /\ sqlite_sequence["logs"] > Cardinality(logs)

(***************************************************************************)
(* Claims about the alarm mapping of inject_alarm_logic.                   *)
(***************************************************************************)
\* the (scheduled_time, task) pairs of the incomplete rows of a read
PendingPairs(df) ==
    {Item(df[i].scheduled_time, df[i].task) : i \in {i \in 1..Len(df) : IsPending(df[i])}}

\* C11: the alarm mapping of a page run holds every incomplete task of the day
\* as the value under its scheduled_time key, and every entry of the mapping
\* comes from an incomplete task (no completed task appears in it).
C11_AlarmHoldsEveryPendingTask ==
    \A s \in Sessions :
        /\ PendingPairs(tasks_df[s]) \subseteq ui[s].alarm_data
        /\ ui[s].alarm_data \subseteq PendingPairs(tasks_df[s])

(***************************************************************************)
(* The advisory pages: "Dr. AI Symptom Checker" (lines 526-552), "Medical  *)
(* Reports" (lines 477-495) and "Family Updates" (lines 453-474).          *)
(***************************************************************************)
Emergency == <<"E", "m", "e", "r", "g", "e", "n", "c", "y">>

Urgent == <<"U", "r", "g", "e", "n", "t">>

EmergencyCall911 == <<"E", "m", "e", "r", "g", "e", "n", "c", "y", " ", "-", " ", "C", "a", "l", "l", " ", "9", "1", "1">>

UrgentSeeDoctor24h == <<"U", "r", "g", "e", "n", "t", " ", "-", " ", "S", "e", "e", " ", "D", "o", "c", "t", "o", "r", " ", "2", "4", "h">>

NonUrgentMonitor == <<"N", "o", "n", "-", "U", "r", "g", "e", "n", "t", " ", "-", " ", "M", "o", "n", "i", "t", "o", "r">>

Unknown == <<"U", "n", "k", "n", "o", "w", "n">>

\* word in text
Contains(text, word) ==
    \E i \in 1..(Len(text) - Len(word) + 1) : SubSeq(text, i, i + Len(word) - 1) = word

\* lines 539-544: the colour of the triage banner
triage_banner(triage) ==
    IF Contains(triage, Emergency) THEN "error"
    ELSE IF Contains(triage, Urgent) THEN "warning"
    ELSE "success"

\* st.text_area "Describe the Symptoms": left empty, or a description
SymptomInputs == {"", "Swollen ankles and shortness of breath since this morning."}

\* what the provider can do for the triage prompt
TriageReplies ==
    { Raised("Connection error."),
      Content(FALSE, {}),
      Content(TRUE, {Item("triage_level", EmergencyCall911), Item("analysis", <<"a">>),
                     Item("action_plan", <<"p">>), Item("disclaimer", <<"d">>)}),
      Content(TRUE, {Item("triage_level", UrgentSeeDoctor24h), Item("analysis", <<"a">>)}),
      Content(TRUE, {Item("triage_level", NonUrgentMonitor), Item("analysis", <<"a">>),
                     Item("note", <<"n">>)}),
      Content(TRUE, {Item("analysis", <<"a">>)}) }

\* what the provider can do for a prompt that asks for free text
TextReplies ==
    { Raised("Connection error."),
      Prose("## Results: creatinine is slightly high."),
      Prose("") }

\* the page after a call of ask_ai: what left ask_ai by raise ends the script
AfterCall(s, page, json_mode, reply, result, shown) ==
    ui' = [ui EXCEPT ![s] = [@ EXCEPT !.page = page,
                                      !.crashed = result.raised,
                                      !.ai = [called |-> TRUE, json_mode |-> json_mode,
                                              reply |-> reply, result |-> result,
                                              shown |-> IF result.raised THEN ""
                                                        ELSE shown]]]

\* a page that warns about an empty input and calls nothing
NoCall(s, page, shown) ==
    ui' = [ui EXCEPT ![s] = [@ EXCEPT !.page = page, !.ai = [NoAi EXCEPT !.shown = shown]]]

\* lines 528-552: "Check Symptoms" (line 508 has read the profile row)
check_symptoms(s) ==
    /\ pc[s] = "page"
    /\ patient_profile # {}
    /\ \E symptoms \in SymptomInputs, reply \in TriageReplies :
          IF symptoms = ""
          THEN NoCall(s, "Dr. AI Symptom Checker", "Please enter symptoms.")
          ELSE LET result == ask_ai_json_mode(reply, TRUE)
               IN  AfterCall(s, "Dr. AI Symptom Checker", TRUE, reply, result,
                             triage_banner(Get(result.dict, "triage_level", Unknown)))
    /\ pc' = [pc EXCEPT ![s] = "done"]
    /\ UNCHANGED <<dbVars, today, count, seed_today_str, today_str, tasks_df, hist>>

\* st.text_area "Paste Report Text Here": left empty, or a report
ReportInputs == {"", "Creatinine: 1.4, BUN: 25, Potassium: 3.8"}

\* lines 484-495: "Decode Report", analyze_medical_text calls ask_ai(prompt, json_mode=False)
decode_report(s) ==
    /\ pc[s] = "page"
    /\ \E report_text \in ReportInputs, reply \in TextReplies :
          IF report_text = ""
          THEN NoCall(s, "Medical Reports", "Please paste some text first.")
          ELSE AfterCall(s, "Medical Reports", FALSE, reply,
                         ask_ai_json_mode(reply, FALSE), "Analysis Complete!")
    /\ pc' = [pc EXCEPT ![s] = "done"]
    /\ UNCHANGED <<dbVars, today, count, seed_today_str, today_str, tasks_df, hist>>

\* lines 471-474: "Generate Summary", generate_newsletter calls ask_ai(prompt, json_mode=False)
generate_summary(s) ==
    /\ pc[s] = "page"
    /\ \E reply \in TextReplies :
          AfterCall(s, "Family Updates", FALSE, reply, ask_ai_json_mode(reply, FALSE),
                    "Weekly Summary:")
    /\ pc' = [pc EXCEPT ![s] = "done"]
    /\ UNCHANGED <<dbVars, today, count, seed_today_str, today_str, tasks_df, hist>>

(***************************************************************************)
(* One caregiver session on the advisory pages, from a fresh store.        *)
(***************************************************************************)
NextGateway ==
    \/ init_db(1)
    \/ check_and_create_daily_tasks(1)
    \/ fetch_tasks(1)
    \/ check_symptoms(1)
    \/ decode_report(1)
    \/ generate_summary(1)
    \/ submit_log(1)
    \/ interact(1)

SpecGateway == Init /\ [][NextGateway]_vars

\* the call of a run ended in the except branch: the provider raised, or the
\* content of a structured call is not JSON
GatewayFailure(ai) == ai.reply.kind = "raise" \/ (ai.json_mode /\ ~ai.reply.valid)

\* str(e) of that failure
GatewayMessage(ai) ==
    IF ai.reply.kind = "raise" THEN ai.reply.message ELSE json_loads(ai.reply).error

\* C12: ask_ai never raises past its boundary.  On a provider error or, in a
\* structured call, on a content that does not parse, it returns a mapping whose
\* only field "error" carries the message; otherwise a structured call returns
\* the parsed mapping and an unstructured call returns the raw text.
C12_GatewayNeverRaises ==
    \A s \in Sessions :
        LET ai == ui[s].ai
        IN  ai.called =>
               /\ ~ai.result.raised
               /\ GatewayFailure(ai) =>
                     /\ ai.result.kind = "dict"
                     /\ ai.result.dict = {Item("error", GatewayMessage(ai))}
               /\ (~GatewayFailure(ai) /\ ai.json_mode) =>
                     /\ ai.result.kind = "dict"
                     /\ ai.result.dict = ai.reply.object
               /\ (~GatewayFailure(ai) /\ ~ai.json_mode) =>
                     /\ ai.result.kind = "text"
                     /\ ai.result.text = ai.reply.text

\* after a log submission, a structured call whose content did not parse has been
\* answered with an error mapping and the page was drawn
C12_Witness ==
    \E s \in Sessions :
        LET ai == ui[s].ai
        IN  /\ ai.called
            /\ ~ui[s].crashed
            /\ ai.json_mode
            /\ ai.reply.kind = "content"
            /\ ~ai.reply.valid
            /\ \E item \in ai.result.dict : item.key = "error" /\ item.value # ""
            /\ sqlite_sequence["logs"] >= 1

(***************************************************************************)
(* One caregiver session on the Daily Routine page while midnight passes:  *)
(* the scheduler (line 92) and the read (line 207) each call date.today(). *)
(***************************************************************************)
NextMidnight ==
    \/ init_db(1)
    \/ check_and_create_daily_tasks(1)
    \/ fetch_tasks(1)
    \/ render_daily_routine(1)
    \/ toggle_task(1)
    \/ interact(1)
    \/ Tick

SpecMidnight == Init /\ [][NextMidnight]_vars

\* C13: in every page run the read of today's routine tasks returns at least one
\* row for the date it reads, whenever midnight falls.
C13_ReadFindsTodaysRows ==
    \A s \in Sessions :
        (pc[s] \in {"page", "done"} /\ today_str[s] # << >>) => Len(tasks_df[s]) >= 1

(***************************************************************************)
(* Claims about the stored classification of a log.                        *)
(***************************************************************************)
\* C14: every stored log has a category among Vitals, Activity, Mood, Incident
\* and General and a severity among Low, Medium and High, whatever the model
\* answered to the classification prompt.
C14_StoredClassificationInRange ==
    \A row \in logs :
        /\ row.category \in {"Vitals", "Activity", "Mood", "Incident", "General"}
        /\ row.severity \in {"Low", "Medium", "High"}

====
